---- MODULE Spec2Model ----
(***************************************************************************)
(* Model of src/process_pdfs.py: PDFOutlineExtractor.                      *)
(*                                                                         *)
(* Text is a sequence of one-character strings.  Font sizes are integers   *)
(* (points); coordinates are integers (points); the float comparisons of   *)
(* the source are modelled by the equivalent integer inequalities, e.g.    *)
(* y / height < 0.3 is 10 * y < 3 * height.                                *)
(***************************************************************************)
EXTENDS Integers, Sequences, FiniteSets, TLC

VARIABLES
    pdf,           \* process_pdf: the opened document (pages of raw spans)
    pc,            \* position in process_pdf / process_directory
    all_elements,  \* process_pdf: collected page items, one sequence per page
    clusters,      \* process_pdf: result of cluster_font_sizes
    is_form_like,  \* process_pdf: any(detect_form_like(page)) over 2 pages
    title,         \* process_pdf: result of extract_title
    dedup,         \* process_pdf: set of (text, page) keys already emitted
    outline,       \* process_pdf: the outline list
    pos,           \* process_pdf: index of the next element of the nested loop
    result,        \* process_pdf: the record dumped to the output file
    ev,            \* evaluator harness: arguments and result of a call
    files,         \* process_directory: the globbed files in enumeration order
    file_i,        \* process_directory: index of the file being processed
    written        \* process_directory: output records written, by file index

vars == <<pdf, pc, all_elements, clusters, is_form_like, title, dedup,
          outline, pos, result, ev, files, file_i, written>>

-----------------------------------------------------------------------------
(* Bounds of the model *)

MaxSpans == 3      \* spans in one generated document
MaxPages == 2      \* pages in one generated document
MaxFiles == 3      \* files in the input directory

-----------------------------------------------------------------------------
(* Characters *)

UpperChars == {"A","B","C","D","E","F","G","H","I","J","K","L","M",
               "N","O","P","Q","R","S","T","U","V","W","X","Y","Z"}
LowerChars == {"a","b","c","d","e","f","g","h","i","j","k","l","m",
               "n","o","p","q","r","s","t","u","v","w","x","y","z"}
DigitChars == {"0","1","2","3","4","5","6","7","8","9"}
SpaceChars == {" ", "\t", "\n"}
RomanChars == {"I","V","X","L","C","D","M","i","v","x","l","c","d","m"}
SepChars   == {".", " ", "-"}

IsSpace(c) == c \in SpaceChars
IsAlpha(c) == c \in UpperChars \cup LowerChars
IsUpperChar(c) == c \in UpperChars
IsLowerChar(c) == c \in LowerChars
IsDigit(c) == c \in DigitChars
IsAlnum(c) == IsAlpha(c) \/ IsDigit(c)

LowerOf(c) ==
    LET up == <<"A","B","C","D","E","F","G","H","I","J","K","L","M","N","O","P","Q","R","S","T","U","V","W","X","Y","Z">>
        lo == <<"a","b","c","d","e","f","g","h","i","j","k","l","m","n","o","p","q","r","s","t","u","v","w","x","y","z">>
    IN IF c \in UpperChars
       THEN lo[CHOOSE i \in 1..26 : up[i] = c]
       ELSE c

-----------------------------------------------------------------------------
(* String helpers: str.strip, str.lower, str.count, str.startswith, ...    *)

\* first index >= i whose character is not in S (Len(s)+1 if none)
SkipWhile(s, i, S) ==
    CHOOSE j \in i..(Len(s) + 1) :
        /\ j = Len(s) + 1 \/ s[j] \notin S
        /\ \A k \in i..(j - 1) : s[k] \in S

\* first index >= i whose character is whitespace (Len(s)+1 if none)
SkipWord(s, i) ==
    CHOOSE j \in i..(Len(s) + 1) :
        /\ j = Len(s) + 1 \/ IsSpace(s[j])
        /\ \A k \in i..(j - 1) : ~IsSpace(s[k])

\* last index whose character is not whitespace (0 if none)
LastNonSpace(s) ==
    CHOOSE j \in 0..Len(s) :
        /\ j = 0 \/ ~IsSpace(s[j])
        /\ \A k \in (j + 1)..Len(s) : IsSpace(s[k])

LStrip(s) == SubSeq(s, SkipWhile(s, 1, SpaceChars), Len(s))

RStrip(s) == SubSeq(s, 1, LastNonSpace(s))

Strip(s) == RStrip(LStrip(s))

\* re.sub(r'\s+', ' ', s): every maximal run of whitespace becomes one space
RECURSIVE CollapseSpaces(_)
CollapseSpaces(s) ==
    LET e == SkipWord(s, 1)
        r == SkipWhile(s, e, SpaceChars)
    IN IF e > Len(s) THEN s
       ELSE SubSeq(s, 1, e - 1) \o <<" ">>
               \o CollapseSpaces(SubSeq(s, r, Len(s)))

Lower(s) == [i \in 1..Len(s) |-> LowerOf(s[i])]

CountIf(s, S) == Cardinality({i \in 1..Len(s) : s[i] \in S})

CountDots(s) == Cardinality({i \in 1..Len(s) : s[i] = "."})

StartsWith(s, p) == Len(p) <= Len(s) /\ SubSeq(s, 1, Len(p)) = p

EndsWith(s, c) == Len(s) > 0 /\ s[Len(s)] = c

\* str.isupper(): at least one cased character and no lowercase one
IsUpperStr(s) ==
    /\ \E i \in 1..Len(s) : IsUpperChar(s[i])
    /\ \A i \in 1..Len(s) : ~IsLowerChar(s[i])

\* str.split(): the whitespace-separated words
RECURSIVE Split(_)
Split(s) ==
    LET t == LStrip(s)
        e == SkipWord(t, 1)
    IN IF t = <<>> THEN <<>>
       ELSE <<SubSeq(t, 1, e - 1)>> \o Split(SubSeq(t, e, Len(t)))

Max(a, b) == IF a >= b THEN a ELSE b
Min(a, b) == IF a <= b THEN a ELSE b

-----------------------------------------------------------------------------
(* PDFOutlineExtractor: pure methods *)

clean_text(text) == CollapseSpaces(Strip(text))

\* sorted(set(font_sizes), reverse=True)
RECURSIVE SortDesc(_)
SortDesc(S) ==
    IF S = {} THEN <<>>
    ELSE LET m == CHOOSE x \in S : \A y \in S : y <= x
         IN <<m>> \o SortDesc(S \ {m})

cluster_font_sizes(font_sizes) ==
    LET sorted == SortDesc({font_sizes[i] : i \in 1..Len(font_sizes)})
    IN SubSeq(sorted, 1, Min(4, Len(sorted)))

Level(n) == CASE n = 1 -> "H1" [] n = 2 -> "H2" [] n = 3 -> "H3" [] OTHER -> "H4"

font_size_to_level(size, cl) ==
    IF cl = <<>> THEN "H1"
    ELSE IF \E idx \in 1..Len(cl) : cl[idx] = size
         THEN Level(CHOOSE idx \in 1..Len(cl) :
                        /\ cl[idx] = size
                        /\ \A j \in 1..(idx - 1) : cl[j] # size)
         ELSE Level(Min(Len(cl) + 1, 4))

\* text.count('.')
DotsOf(text) == CountDots(text)

\* re.match(r'^(\d+)(\.(\d+))*', text.strip()) succeeds iff the stripped
\* text starts with a digit; "None" stands for Python's None
heading_level_from_numbering(text) ==
    LET st == Strip(text)
        dots == DotsOf(text)
    IN IF ~(st # <<>> /\ IsDigit(st[1])) THEN "None"
       ELSE IF dots = 0 THEN "H1"
       ELSE IF dots = 1 THEN "H2"
       ELSE IF dots = 2 THEN "H3"
       ELSE "H4"

is_bold(flags) == (flags \div 2) % 2 = 1

\* re.fullmatch(r'(\(?\d{1,2}\)?[\.:]?)', text)
BareNumeral(text) ==
    \E a \in 0..1, d \in 1..2, b \in 0..1, c \in 0..1 :
        /\ Len(text) = a + d + b + c
        /\ a = 1 => text[1] = "("
        /\ \A i \in (a + 1)..(a + d) : IsDigit(text[i])
        /\ b = 1 => text[a + d + 1] = ")"
        /\ c = 1 => text[a + d + b + 1] \in {".", ":"}

\* skip the repetitions of (\.\d+) starting at index i
RECURSIVE SkipDotGroups(_, _)
SkipDotGroups(s, i) ==
    IF i + 1 <= Len(s) /\ s[i] = "." /\ IsDigit(s[i + 1])
    THEN SkipDotGroups(s, SkipWhile(s, i + 1, DigitChars))
    ELSE i

\* re.match(r'^\d+(\.\d+)+\s+([A-Za-z].+)', text): group(2), or <<>> when
\* there is no match (a matched group(2) has at least two characters)
NumberedGroup2(text) ==
    LET i1 == SkipWhile(text, 1, DigitChars)
        i2 == SkipDotGroups(text, i1)
        i3 == SkipWhile(text, i2, SpaceChars)
    IN IF /\ i1 > 1
          /\ i2 > i1
          /\ i3 > i2
          /\ i3 + 1 <= Len(text)
          /\ IsAlpha(text[i3])
       THEN SubSeq(text, i3, Len(text))
       ELSE <<>>

\* re.match(r'^([IVXLCDM]+)[\. \-]+([A-Za-z].+)', text, re.I): group(2)
RomanGroup2(text) ==
    LET i1 == SkipWhile(text, 1, RomanChars)
        i2 == SkipWhile(text, i1, SepChars)
    IN IF /\ i1 > 1
          /\ i2 > i1
          /\ i2 + 1 <= Len(text)
          /\ IsAlpha(text[i2])
       THEN SubSeq(text, i2, Len(text))
       ELSE <<>>

keywords == <<
    <<"t","a","b","l","e"," ","o","f"," ","c","o","n","t","e","n","t","s">>, <<"r","e","v","i","s","i","o","n"," ","h","i","s","t","o","r","y">>, <<"a","c","k","n","o","w","l","e","d","g","e","m","e","n","t","s">>,
    <<"s","u","m","m","a","r","y">>, <<"c","o","n","c","l","u","s","i","o","n">>, <<"a","b","s","t","r","a","c","t">>, <<"i","n","t","r","o","d","u","c","t","i","o","n">>,
    <<"a","p","p","e","n","d","i","x">>, <<"o","b","j","e","c","t","i","v","e","s">>, <<"o","v","e","r","v","i","e","w">>, <<"r","e","f","e","r","e","n","c","e","s">>,
    <<"s","e","c","t","i","o","n">>, <<"p","h","a","s","e">>, <<"b","u","s","i","n","e","s","s"," ","p","l","a","n">>, <<"a","w","a","r","d">>, <<"p","r","o","p","o","s","a","l">>,
    <<"r","e","q","u","i","r","e","m","e","n","t","s">>, <<"m","i","l","e","s","t","o","n","e","s">>, <<"t","e","r","m","s"," ","o","f"," ","r","e","f","e","r","e","n","c","e">>,
    <<"m","e","m","b","e","r","s","h","i","p">>, <<"c","r","i","t","e","r","i","a">>, <<"p","r","o","c","e","s","s">>, <<"r","e","s","p","o","n","s","i","b","i","l","i","t","i","e","s">>,
    <<"t","i","m","e","l","i","n","e">>, <<"c","o","n","t","r","a","c","t">>, <<"a","p","p","r","o","a","c","h">>, <<"f","u","n","d","i","n","g">>, <<"f","i","n","a","n","c","i","a","l">>,
    <<"p","o","l","i","c","y">>, <<"a","d","m","i","n","i","s","t","r","a","t","i","v","e">>, <<"l","e","a","r","n","i","n","g"," ","o","b","j","e","c","t","i","v","e","s">>,
    <<"c","a","r","e","e","r"," ","p","a","t","h","s">> >>

\* max(clusters + [0])
MaxCluster(cl) ==
    LET S == {cl[i] : i \in 1..Len(cl)} \cup {0}
    IN CHOOSE x \in S : \A y \in S : y <= x

\* the length gate of is_heading_candidate
LengthGateNoUpper(text) == Len(text) < 6
LengthGate(text) == text = <<>> \/ Len(text) < 6 \/ Len(text) > 90

is_heading_candidate(rawtext, size, cl, flags, rel_x, form) ==
    LET text == clean_text(rawtext)
        allwords == Split(text)
        nwords == Cardinality({i \in 1..Len(allwords) :
                      \E j \in 1..Len(allwords[i]) : IsAlpha(allwords[i][j])})
        only_alpha == CountIf(text, UpperChars \cup LowerChars)
        only_symbol == Len(text) - CountIf(text, UpperChars \cup LowerChars
                                          \cup DigitChars \cup SpaceChars)
        numbered == NumberedGroup2(text)
        roman == RomanGroup2(text)
        lower == Lower(text)
        uppercase == CountIf(text, UpperChars)
    IN IF LengthGate(text) THEN FALSE
       ELSE IF BareNumeral(text) THEN FALSE
       ELSE IF form /\ nwords < 2 THEN FALSE
       ELSE IF only_symbol > only_alpha THEN FALSE
       ELSE IF 100 * only_alpha < 45 * Len(text) THEN FALSE
       ELSE IF numbered # <<>> /\ Len(Strip(numbered)) > 4 THEN TRUE
       ELSE IF roman # <<>> /\ Len(Strip(roman)) > 4 THEN TRUE
       ELSE IF \E k \in 1..Len(keywords) : StartsWith(lower, keywords[k])
            THEN TRUE
       ELSE IF (\E i \in 1..Len(cl) : cl[i] = size)
                 \/ (is_bold(flags) /\ size > MaxCluster(cl)) THEN TRUE
       ELSE IF only_symbol = 0 /\ 10 * uppercase > 6 * Len(text)
                 /\ nwords >= 2 /\ Len(text) < 70 THEN TRUE
       ELSE IF EndsWith(text, ":") /\ Len(text) < 55 THEN TRUE
       ELSE FALSE

-----------------------------------------------------------------------------
(* extract_title *)

\* elem['size'] > max_size
TitleSizeBetterOrEqual(size, max_size) == size >= max_size
TitleSizeBetter(size, max_size) == size > max_size

\* elem['relative_y'] < 0.3 ; relative_y is kept in thousandths
InTitleRegion(rel_y) == rel_y < 300

\* elem['relative_y'] < 0.4
InFallbackRegionWide(rel_y) == rel_y < 600
InFallbackRegion(rel_y) == rel_y < 400

\* the two "continue" tests of the first loop
TitleSkip(txt) ==
    \/ txt = <<>> \/ Len(txt) < 6 \/ IsUpperStr(txt)
    \/ EndsWith(txt, ".") \/ EndsWith(txt, ":") \/ Len(txt) > 120

\* first loop of extract_title, from element i on: the final value of best
RECURSIVE TitlePrimary(_, _, _, _)
TitlePrimary(page_data, i, best, max_size) ==
    IF i > Len(page_data) THEN best
    ELSE LET elem == page_data[i]
             txt == clean_text(elem.text)
         IN IF TitleSkip(txt) THEN TitlePrimary(page_data, i + 1, best, max_size)
            ELSE IF TitleSizeBetter(elem.size, max_size)
                      /\ InTitleRegion(elem.relative_y)
                 THEN TitlePrimary(page_data, i + 1, txt, elem.size)
                 ELSE TitlePrimary(page_data, i + 1, best, max_size)

\* second loop of extract_title, from element i on
RECURSIVE TitleFallback(_, _, _)
TitleFallback(page_data, i, best) ==
    IF i > Len(page_data) THEN best
    ELSE LET elem == page_data[i]
             txt == clean_text(elem.text)
         IN IF Len(txt) > Len(best) /\ InFallbackRegion(elem.relative_y)
            THEN TitleFallback(page_data, i + 1, txt)
            ELSE TitleFallback(page_data, i + 1, best)

extract_title(page_data) ==
    LET best == TitlePrimary(page_data, 1, <<>>, 0)
    IN IF best # <<>> THEN best
       ELSE TitleFallback(page_data, 1, best)

-----------------------------------------------------------------------------
(* detect_form_like *)

detect_form_like(page_data) ==
    LET txt(i) == clean_text(page_data[i].text)
        nonalnum(t) == Cardinality({j \in 1..Len(t) : ~IsAlnum(t[j])})
        symbols == Cardinality({i \in 1..Len(page_data) :
                       /\ Len(txt(i)) < 14
                       /\ 5 * nonalnum(txt(i)) > Max(1, Len(txt(i)))})
        short_caps == Cardinality({i \in 1..Len(page_data) :
                       IsUpperStr(txt(i)) /\ Len(txt(i)) < 13})
    IN 100 * (symbols + short_caps) > 18 * Len(page_data)

-----------------------------------------------------------------------------
(* process_pdf: span collection *)

\* bbox[1] / height if height else 0.0, in thousandths (rounded down)
RelativeY(y, height) == IF height # 0 THEN (1000 * y) \div height ELSE 0

\* the page_items of one page: spans whose stripped text is empty are skipped
RECURSIVE CollectPage(_, _, _)
CollectPage(spans, pageno, height) ==
    IF spans = <<>> THEN <<>>
    ELSE LET span == Head(spans)
             text == Strip(span.text)
             rest == CollectPage(Tail(spans), pageno, height)
         IN IF text = <<>> THEN rest
            ELSE <<[text |-> text, size |-> span.size, flags |-> span.flags,
                    page |-> pageno,
                    relative_y |-> RelativeY(span.y, height)]>> \o rest

CollectAll(doc) ==
    [p \in 1..Len(doc.pages) |-> CollectPage(doc.pages[p], p, doc.height)]

\* the elements in the order the nested loops visit them
RECURSIVE Flatten(_)
Flatten(pages) ==
    IF pages = <<>> THEN <<>> ELSE Head(pages) \o Flatten(Tail(pages))

\* [elem["size"] for page in all_elements for elem in page]
FontSizes(pages) == LET f == Flatten(pages) IN [i \in 1..Len(f) |-> f[i].size]

\* any(self.detect_form_like(page) for page in all_elements[:2])
FormLike(pages) ==
    \E p \in 1..Min(2, Len(pages)) : detect_form_like(pages[p])

\* self.extract_title(all_elements[0]) if all_elements else ""
TitleOf(pages) == IF pages # <<>> THEN extract_title(pages[1]) ELSE <<>>

-----------------------------------------------------------------------------
(* process_pdf: outline assembly *)

\* t == title
IsTitleNever(t, ttl) == FALSE
IsTitle(t, ttl) == t = ttl

\* key = (t, elem['page'])
DedupKeyTextOnly(t, page) == <<t, 0>>
DedupKey(t, page) == <<t, page>>

\* outline.append(entry)
AppendEntryFront(ol, entry) == <<entry>> \o ol
AppendEntry(ol, entry) == Append(ol, entry)

\* numbered_lvl if numbered_lvl else font_size_to_level(size, clusters)
LevelOf(t, size, cl) ==
    LET numbered_lvl == heading_level_from_numbering(t)
    IN IF numbered_lvl # "None" THEN numbered_lvl
       ELSE font_size_to_level(size, cl)

\* the "continue" tests before the dedup test
Accepted(elem, ttl, cl, form) ==
    LET t == clean_text(elem.text)
    IN /\ ~(t = <<>> \/ IsTitle(t, ttl))
       /\ is_heading_candidate(t, elem.size, cl, elem.flags, 0, form)

\* one iteration of the inner loop: the new [dedup, outline]
LoopBody(st, elem, ttl, cl, form) ==
    LET t == clean_text(elem.text)
        key == DedupKey(t, elem.page)
    IN IF ~Accepted(elem, ttl, cl, form) THEN st
       ELSE IF key \in st.dedup THEN st
       ELSE [dedup |-> st.dedup \cup {key},
             outline |-> AppendEntry(st.outline,
                            [level |-> LevelOf(t, elem.size, cl),
                             text |-> t, page |-> elem.page])]

RECURSIVE Assemble(_, _, _, _, _, _)
Assemble(st, elems, i, ttl, cl, form) ==
    IF i > Len(elems) THEN st
    ELSE Assemble(LoopBody(st, elems[i], ttl, cl, form), elems, i + 1,
                  ttl, cl, form)

\* the record process_pdf dumps for a document that opens
ProcessPdf(doc) ==
    LET pages == CollectAll(doc)
        cl == cluster_font_sizes(FontSizes(pages))
        form == FormLike(pages)
        ttl == TitleOf(pages)
        st == Assemble([dedup |-> {}, outline |-> <<>>], Flatten(pages), 1,
                       ttl, cl, form)
    IN [title |-> ttl, outline |-> st.outline]

-----------------------------------------------------------------------------
(* Inputs: raw spans as the PDF parser reports them *)

RawSpan(text, size, flags, y) ==
    [text |-> text, size |-> size, flags |-> flags, y |-> y]

\* a lowercase text of n characters in five-letter words
LongText(n) == [i \in 1..n |-> IF i % 6 = 0 THEN " " ELSE "a"]

PageHeight == 1000

AnnualReport   == <<"A","n","n","u","a","l"," ","R","e","p","o","r","t"," ","2","0","2","4">>
AnnualReport2  == <<"A","n","n","u","a","l"," "," ","R","e","p","o","r","t"," ","2","0","2","4">>
Report         == <<"R","e","p","o","r","t">>
Introduction1  == <<"1","."," ","I","n","t","r","o","d","u","c","t","i","o","n">>
Background11   == <<"1",".","1"," ","B","a","c","k","g","r","o","u","n","d">>
ScopeVsGoals   == <<"2",".","1"," ","S","c","o","p","e"," ","v","s","."," ","G","o","a","l","s">>
Paragraph      == <<"S","o","m","e"," ","n","o","r","m","a","l"," ","p","a","r","a","g","r","a","p","h"," ","t","e","x","t",".">>
NameLabel      == <<"N","a","m","e",":">>
DateLabel      == <<"D","a","t","e",":">>
SignatureLabel == <<"S","i","g","n","a","t","u","r","e",":">>
Overview       == <<"O","V","E","R","V","I","E","W">>
Blank          == <<" "," ">>

SpanPool ==
    { RawSpan(AnnualReport, 24, 0, 100),
      RawSpan(AnnualReport2, 12, 0, 500),
      RawSpan(Report, 24, 0, 100),
      RawSpan(Background11, 12, 2, 500),
      RawSpan(ScopeVsGoals, 12, 0, 500),
      RawSpan(Paragraph, 10, 0, 500),
      RawSpan(SignatureLabel, 10, 0, 350),
      RawSpan(Overview, 14, 0, 100),
      RawSpan(LongText(121), 30, 0, 100),
      RawSpan(Blank, 10, 0, 500) }

\* the ways of cutting k spans into n consecutive pages
Splits(k, n) ==
    {c \in [0..n -> 0..k] :
        /\ c[0] = 0
        /\ c[n] = k
        /\ \A i \in 1..n : c[i - 1] <= c[i]}

MkDoc(s, n, c, height) ==
    [pages |-> [p \in 1..n |-> SubSeq(s, c[p - 1] + 1, c[p])],
     height |-> height]

GeneratedDocs ==
    UNION { UNION { { MkDoc(s, n, c, PageHeight) :
                         s \in [1..k -> SpanPool], c \in Splits(k, n) } :
                    n \in 0..MaxPages } :
            k \in 0..MaxSpans }

\* one-span pages with degenerate page dimensions
DegenerateDocs ==
    { [pages |-> << <<sp>> >>, height |-> 0] : sp \in SpanPool }

\* the report scenario; the attributes the scenario leaves open vary
ReportDocs ==
    { [pages |-> << << RawSpan(AnnualReport, 24, f, 100),
                       RawSpan(Introduction1, 14, f, y),
                       RawSpan(Background11, 12, f, y),
                       RawSpan(Paragraph, 10, 0, y) >> >>,
       height |-> PageHeight] : f \in {0, 2}, y \in {200, 500} }

\* the form scenario
FormDocs ==
    { [pages |-> << << RawSpan(NameLabel, sz, 0, y),
                       RawSpan(DateLabel, sz, 0, y + 50),
                       RawSpan(SignatureLabel, sz, 0, y + 100) >> >>,
       height |-> PageHeight] : sz \in {10, 12}, y \in {100, 600} }

Docs == GeneratedDocs \cup DegenerateDocs \cup ReportDocs \cup FormDocs

EmptyDoc == [pages |-> <<>>, height |-> PageHeight]

NoResult == [title |-> <<>>, outline |-> <<>>]
NoEval == [text |-> <<>>, size |-> 0, clusters |-> <<>>, flags |-> 0,
           form |-> FALSE, done |-> FALSE, accept |-> FALSE]

-----------------------------------------------------------------------------
(* process_pdf on one document that opens *)

Init ==
    /\ pdf \in Docs
    /\ pc = "collect"
    /\ all_elements = <<>>
    /\ clusters = <<>>
    /\ is_form_like = FALSE
    /\ title = <<>>
    /\ dedup = {}
    /\ outline = <<>>
    /\ pos = 0
    /\ result = NoResult
    /\ ev = NoEval
    /\ files = <<>>
    /\ file_i = 0
    /\ written = {}

\* lines 132-158: the page loop that fills all_elements
Collect ==
    /\ pc = "collect"
    /\ all_elements' = CollectAll(pdf)
    /\ pc' = "analyze"
    /\ UNCHANGED <<pdf, clusters, is_form_like, title, dedup, outline, pos,
                   result, ev, files, file_i, written>>

\* lines 160-167: clusters, form flag, title, empty dedup and outline
Analyze ==
    /\ pc = "analyze"
    /\ clusters' = cluster_font_sizes(FontSizes(all_elements))
    /\ is_form_like' = FormLike(all_elements)
    /\ title' = TitleOf(all_elements)
    /\ dedup' = {}
    /\ outline' = <<>>
    /\ pos' = 1
    /\ pc' = "loop"
    /\ UNCHANGED <<pdf, all_elements, result, ev, files, file_i, written>>

\* lines 168-189: one iteration of the nested loop
AssembleStep ==
    /\ pc = "loop"
    /\ pos <= Len(Flatten(all_elements))
    /\ LET st == LoopBody([dedup |-> dedup, outline |-> outline],
                          Flatten(all_elements)[pos], title, clusters,
                          is_form_like)
       IN /\ dedup' = st.dedup
          /\ outline' = st.outline
    /\ pos' = pos + 1
    /\ UNCHANGED <<pdf, pc, all_elements, clusters, is_form_like, title,
                   result, ev, files, file_i, written>>

\* lines 191-197: the result record is dumped
WriteResult ==
    /\ pc = "loop"
    /\ pos > Len(Flatten(all_elements))
    /\ result' = [title |-> title, outline |-> outline]
    /\ pc' = "done"
    /\ UNCHANGED <<pdf, all_elements, clusters, is_form_like, title, dedup,
                   outline, pos, ev, files, file_i, written>>

Next == Collect \/ Analyze \/ AssembleStep \/ WriteResult

Spec == Init /\ [][Next]_vars

-----------------------------------------------------------------------------
(* is_heading_candidate on its own, with arguments chosen independently *)

EvalTexts ==
    { AnnualReport, Report, Introduction1, Background11, ScopeVsGoals,
      Paragraph, NameLabel, SignatureLabel, Overview, <<"I","I","."," ","M","e","t","h","o","d","s"," ","u","s","e","d">>,
      <<"I","n","t","r","o">>, <<"1","2","3","4","5"," ","6","7","8"," ","(","9","0",")">>, <<"N","o","t","e","s">>,
      LongText(90), LongText(91), LongText(121) }

EvalSizes == {10, 12, 24}
EvalClusters == { <<>>, <<12>>, <<24, 12>>, <<24, 14, 12, 10>> }
EvalFlags == {0, 2, 16}

EvalInit ==
    /\ ev \in { [text |-> t, size |-> sz, clusters |-> cl, flags |-> f,
                 form |-> fm, done |-> FALSE, accept |-> FALSE] :
                   t \in EvalTexts, sz \in EvalSizes, cl \in EvalClusters,
                   f \in EvalFlags, fm \in BOOLEAN }
    /\ pc = "eval"
    /\ pdf = EmptyDoc
    /\ all_elements = <<>>
    /\ clusters = <<>>
    /\ is_form_like = FALSE
    /\ title = <<>>
    /\ dedup = {}
    /\ outline = <<>>
    /\ pos = 0
    /\ result = NoResult
    /\ files = <<>>
    /\ file_i = 0
    /\ written = {}

Evaluate ==
    /\ pc = "eval"
    /\ ev' = [ev EXCEPT !.done = TRUE,
                        !.accept = is_heading_candidate(ev.text, ev.size,
                                       ev.clusters, ev.flags, 0, ev.form)]
    /\ pc' = "evaluated"
    /\ UNCHANGED <<pdf, all_elements, clusters, is_form_like, title, dedup,
                   outline, pos, result, files, file_i, written>>

EvalNext == Evaluate

EvalSpec == EvalInit /\ [][EvalNext]_vars

-----------------------------------------------------------------------------
(* process_directory *)

Unreadable == [readable |-> FALSE, doc |-> EmptyDoc]
Readable(doc) == [readable |-> TRUE, doc |-> doc]

OneSpanDoc(sp) == [pages |-> << <<sp>> >>, height |-> PageHeight]

BatchFiles ==
    { Unreadable,
      Readable(EmptyDoc),
      Readable(OneSpanDoc(RawSpan(AnnualReport, 24, 0, 100))),
      Readable(OneSpanDoc(RawSpan(Paragraph, 10, 0, 500))) }

BatchInit ==
    /\ files \in UNION { [1..k -> BatchFiles] : k \in 0..MaxFiles }
    /\ file_i = 1
    /\ written = {}
    /\ pc = "glob"
    /\ pdf = EmptyDoc
    /\ all_elements = <<>>
    /\ clusters = <<>>
    /\ is_form_like = FALSE
    /\ title = <<>>
    /\ dedup = {}
    /\ outline = <<>>
    /\ pos = 0
    /\ result = NoResult
    /\ ev = NoEval

\* line 204 for a file fitz.open accepts: process_pdf runs to its json.dump
ProcessFile ==
    /\ pc = "glob"
    /\ file_i <= Len(files)
    /\ files[file_i].readable
    /\ written' = written \cup {<<file_i, ProcessPdf(files[file_i].doc)>>}
    /\ file_i' = file_i + 1
    /\ UNCHANGED <<pdf, pc, all_elements, clusters, is_form_like, title,
                   dedup, outline, pos, result, ev, files>>

\* line 204 for a file fitz.open rejects: line 132 raises, nothing catches
\* the exception in process_pdf or process_directory, and the loop is left
ProcessFileRaises ==
    /\ pc = "glob"
    /\ file_i <= Len(files)
    /\ ~files[file_i].readable
    /\ pc' = "raised"
    /\ UNCHANGED <<pdf, all_elements, clusters, is_form_like, title, dedup,
                   outline, pos, result, ev, files, file_i, written>>

\* the for loop of process_directory is exhausted
DirectoryDone ==
    /\ pc = "glob"
    /\ file_i > Len(files)
    /\ pc' = "returned"
    /\ UNCHANGED <<pdf, all_elements, clusters, is_form_like, title, dedup,
                   outline, pos, result, ev, files, file_i, written>>

BatchNext == ProcessFile \/ ProcessFileRaises \/ DirectoryDone

BatchSpec == BatchInit /\ [][BatchNext]_vars

-----------------------------------------------------------------------------
(* Vocabulary of the properties *)

Elems == Flatten(all_elements)
Assembling == pc \in {"loop", "done"}
TextOf(elem) == clean_text(elem.text)

\* the span passes every test of the loop that precedes the dedup test
IsHeading(elem) ==
    /\ TextOf(elem) # title
    /\ is_heading_candidate(TextOf(elem), elem.size, clusters, elem.flags, 0,
                            is_form_like)

\* index of the first accepted span that yields the entry (0 if none)
FirstIdx(entry) ==
    LET C == {k \in 1..Len(Elems) :
                 /\ TextOf(Elems[k]) = entry.text
                 /\ Elems[k].page = entry.page
                 /\ IsHeading(Elems[k])}
    IN IF C = {} THEN 0 ELSE CHOOSE k \in C : \A j \in C : k <= j

\* ^\d+\.\d+\s+.+
MatchesTwoLevels(text) ==
    LET i1 == SkipWhile(text, 1, DigitChars)
        i2 == SkipWhile(text, i1 + 1, DigitChars)
    IN /\ i1 > 1 /\ i1 <= Len(text) /\ text[i1] = "."
       /\ i2 > i1 + 1 /\ i2 + 1 <= Len(text) /\ IsSpace(text[i2])

\* ^\d+\.\d+\.\d+\s+.+
MatchesThreeLevels(text) ==
    LET i1 == SkipWhile(text, 1, DigitChars)
        i2 == SkipWhile(text, i1 + 1, DigitChars)
        i3 == SkipWhile(text, i2 + 1, DigitChars)
    IN /\ i1 > 1 /\ i1 <= Len(text) /\ text[i1] = "."
       /\ i2 > i1 + 1 /\ i2 <= Len(text) /\ text[i2] = "."
       /\ i3 > i2 + 1 /\ i3 + 1 <= Len(text) /\ IsSpace(text[i3])

FirstPage == all_elements[1]

\* the span of Q with the largest font size, the first one among equals
LargestFirst(page, Q) ==
    CHOOSE i \in Q : \A j \in Q :
        \/ page[j].size < page[i].size
        \/ page[j].size = page[i].size /\ i <= j

\* the span of Q with the longest text, the first one among equals
LongestFirst(page, Q) ==
    CHOOSE i \in Q : \A j \in Q :
        \/ Len(TextOf(page[j])) < Len(TextOf(page[i]))
        \/ Len(TextOf(page[j])) = Len(TextOf(page[i])) /\ i <= j

\* the qualifying set as the specification words it: longer than 6
QualifyingStated(page) ==
    {i \in 1..Len(page) :
        /\ page[i].relative_y < 300
        /\ ~IsUpperStr(TextOf(page[i]))
        /\ ~EndsWith(TextOf(page[i]), ".")
        /\ ~EndsWith(TextOf(page[i]), ":")
        /\ Len(TextOf(page[i])) > 6}

\* the qualifying set with lengths 6 to 120 and a positive font size
Qualifying(page) ==
    {i \in 1..Len(page) :
        /\ page[i].relative_y < 300
        /\ ~IsUpperStr(TextOf(page[i]))
        /\ ~EndsWith(TextOf(page[i]), ".")
        /\ ~EndsWith(TextOf(page[i]), ":")
        /\ Len(TextOf(page[i])) >= 6
        /\ Len(TextOf(page[i])) <= 120
        /\ page[i].size > 0}

\* the spans in the upper 40% of the page
UpperSpans(page) ==
    {i \in 1..Len(page) :
        page[i].relative_y < 400 /\ Len(TextOf(page[i])) > 0}

\* the spans longer than 7 characters
LongSpans(page) == {i \in 1..Len(page) : Len(TextOf(page[i])) > 7}

PrimaryChoice(page) == TitlePrimary(page, 1, <<>>, 0)

-----------------------------------------------------------------------------
(* Properties *)

\* C1: title exclusion - during and after the assembly loop no outline
\* entry has a text equal to the selected title, and neither has the
\* dumped record.
TitleExcluded ==
    /\ Assembling =>
          \A i \in 1..Len(outline) : outline[i].text # title
    /\ pc = "done" =>
          \A i \in 1..Len(result.outline) :
              result.outline[i].text # result.title

\* C1 witness: a span whose normalized text is the title and which
\* is_heading_candidate accepts has been passed by the loop.
TitleExcludedWitness ==
    /\ pc = "done"
    /\ title # <<>>
    /\ \E k \in 1..Len(Elems) :
          /\ TextOf(Elems[k]) = title
          /\ is_heading_candidate(TextOf(Elems[k]), Elems[k].size, clusters,
                                  Elems[k].flags, 0, is_form_like)

\* C2: deduplication - after every step of the assembly loop the outline
\* has no two entries with the same (text, page); every accepted span seen
\* so far has an entry for its (text, page), so the same text on another
\* page is kept; and the entry is the one of the first such span.
Deduplicated ==
    Assembling =>
      /\ \A i, j \in 1..Len(outline) :
            (outline[i].text = outline[j].text
               /\ outline[i].page = outline[j].page) => i = j
      /\ \A k \in 1..(pos - 1) :
            IsHeading(Elems[k]) =>
               \E i \in 1..Len(outline) :
                  /\ outline[i].text = TextOf(Elems[k])
                  /\ outline[i].page = Elems[k].page
      /\ \A i \in 1..Len(outline) :
            /\ FirstIdx(outline[i]) \in 1..(pos - 1)
            /\ outline[i].level =
                  LevelOf(outline[i].text, Elems[FirstIdx(outline[i])].size,
                          clusters)

\* C2 witness: two accepted spans with the same text on the same page and
\* a third with that text on another page; the outline holds two of them.
DeduplicatedWitness ==
    /\ pc = "done"
    /\ \E k1, k2, k3 \in 1..Len(Elems) :
          /\ k1 < k2
          /\ IsHeading(Elems[k1]) /\ IsHeading(Elems[k2])
          /\ IsHeading(Elems[k3])
          /\ TextOf(Elems[k1]) = TextOf(Elems[k2])
          /\ TextOf(Elems[k1]) = TextOf(Elems[k3])
          /\ Elems[k1].page = Elems[k2].page
          /\ Elems[k1].page # Elems[k3].page
    /\ Len(outline) = 2

\* C3: order preservation - outline entries are in the order in which
\* their first accepted spans are encountered, and their page numbers are
\* non-decreasing.
OrderPreserved ==
    Assembling =>
      \A i, j \in 1..Len(outline) :
         i < j =>
            /\ FirstIdx(outline[i]) > 0
            /\ FirstIdx(outline[i]) < FirstIdx(outline[j])
            /\ outline[i].page <= outline[j].page

\* C3 witness: an outline of three entries over two pages.
OrderPreservedWitness ==
    /\ pc = "done"
    /\ Len(outline) = 3
    /\ outline[1].page # outline[3].page

\* C4: length gate - a span whose normalized text is shorter than 6 or
\* longer than 90 characters is rejected by is_heading_candidate whatever
\* its size, flags, clusters and form flag are.
LengthGateRejects ==
    (ev.done /\ (Len(clean_text(ev.text)) < 6
                   \/ Len(clean_text(ev.text)) > 90))
       => ~ev.accept

\* C4 witness: a bold span of 91 characters whose size is a cluster value
\* has been evaluated.
LengthGateRejectsWitness ==
    /\ ev.done
    /\ Len(clean_text(ev.text)) = 91
    /\ \E i \in 1..Len(ev.clusters) : ev.clusters[i] = ev.size
    /\ is_bold(ev.flags)

\* C5: numbering depth fixes the level - an outline entry whose text
\* matches ^\d+\.\d+\s+.+ has level H2 and one whose text matches
\* ^\d+\.\d+\.\d+\s+.+ has level H3.
NumberingFixesLevel ==
    Assembling =>
      \A i \in 1..Len(outline) :
         /\ MatchesTwoLevels(outline[i].text) => outline[i].level = "H2"
         /\ MatchesThreeLevels(outline[i].text) => outline[i].level = "H3"

\* C6: report scenario - the dumped record has the title "Annual Report
\* 2024" and the outline [H1 "1. Introduction" p1, H2 "1.1 Background" p1].
ReportScenario ==
    (pc = "done" /\ pdf \in ReportDocs) =>
       result = [title |-> AnnualReport,
                 outline |-> << [level |-> "H1", text |-> Introduction1,
                                 page |-> 1],
                                [level |-> "H2", text |-> Background11,
                                 page |-> 1] >>]

\* C7: form scenario - the page of "Name:", "Date:", "Signature:" is
\* classified form-like and none of the three labels is in the outline.
FormScenario ==
    (Assembling /\ pdf \in FormDocs) =>
       /\ is_form_like
       /\ \A i \in 1..Len(outline) :
             outline[i].text \notin {NameLabel, DateLabel, SignatureLabel}

\* C8: batch failure isolation - when process_directory has ended, every
\* file that can be opened has its output record written, wherever the
\* failing file is in the enumeration order.
BatchIsolation ==
    pc \in {"raised", "returned"} =>
       \A i \in 1..Len(files) :
          files[i].readable => \E w \in written : w[1] = i

\* C9 as stated: with the qualifying set "longer than 6 characters", the
\* title is the largest-font qualifying span (first among equals) whenever
\* one exists, and the primary rule chooses no span outside that set.
TitlePrimaryStated ==
    (Assembling /\ all_elements # <<>>) =>
       /\ QualifyingStated(FirstPage) # {} =>
             title = TextOf(FirstPage[LargestFirst(FirstPage,
                                         QualifyingStated(FirstPage))])
       /\ PrimaryChoice(FirstPage) # <<>> =>
             \E i \in QualifyingStated(FirstPage) :
                 TextOf(FirstPage[i]) = PrimaryChoice(FirstPage)

\* C9 amended: the same with the qualifying set "6 to 120 characters and a
\* positive font size".
TitlePrimaryRule ==
    (Assembling /\ all_elements # <<>>) =>
       /\ Qualifying(FirstPage) # {} =>
             title = TextOf(FirstPage[LargestFirst(FirstPage,
                                         Qualifying(FirstPage))])
       /\ PrimaryChoice(FirstPage) # <<>> =>
             \E i \in Qualifying(FirstPage) :
                 TextOf(FirstPage[i]) = PrimaryChoice(FirstPage)

\* C9 witness: two qualifying spans of the same, largest font size and
\* different texts on the first page.
TitlePrimaryRuleWitness ==
    /\ pc = "done"
    /\ all_elements # <<>>
    /\ \E i, j \in Qualifying(FirstPage) :
          /\ i < j
          /\ FirstPage[i].size = FirstPage[j].size
          /\ TextOf(FirstPage[i]) # TextOf(FirstPage[j])
          /\ \A k \in Qualifying(FirstPage) :
                FirstPage[k].size <= FirstPage[i].size

\* C10 as stated: when no span qualifies under the primary rule and none
\* lies in the upper 40%, the title is the first span longer than 7
\* characters; the title is empty only when no rule matches a span.
TitleFallbackStated ==
    (Assembling /\ all_elements # <<>>
       /\ QualifyingStated(FirstPage) = {} /\ UpperSpans(FirstPage) = {}) =>
       /\ LongSpans(FirstPage) # {} =>
             title = TextOf(FirstPage[CHOOSE i \in LongSpans(FirstPage) :
                               \A j \in LongSpans(FirstPage) : i <= j])
       /\ title = <<>> => LongSpans(FirstPage) = {}

\* C10 amended: when the primary rule selects nothing the title is the
\* longest span of the upper 40% (first among equals); the title is
\* empty exactly when the first page has no span in the upper 40%, or the
\* document has no page.
TitleFallbackRule ==
    Assembling =>
       IF all_elements = <<>> THEN title = <<>>
       ELSE /\ (Qualifying(FirstPage) = {} /\ UpperSpans(FirstPage) # {}) =>
                  title = TextOf(FirstPage[LongestFirst(FirstPage,
                                              UpperSpans(FirstPage))])
            /\ title = <<>> <=> UpperSpans(FirstPage) = {}

\* C10 witness: nothing qualifies under the primary rule, two spans lie in
\* the upper 40%, and a span longer than 7 characters lies below it.
TitleFallbackRuleWitness ==
    /\ pc = "done"
    /\ all_elements # <<>>
    /\ Qualifying(FirstPage) = {}
    /\ Cardinality(UpperSpans(FirstPage)) >= 2
    /\ LongSpans(FirstPage) \ UpperSpans(FirstPage) # {}

\* the stepwise run of process_pdf dumps what ProcessPdf computes
StepwiseAgrees == pc = "done" => result = ProcessPdf(pdf)

====
